---------------------------- MODULE Spec2Model ----------------------------
(***************************************************************************)
(* Completion adapters of http-api-bindings: OpenAIEngine::generate        *)
(* (completion/openai.rs, streaming) and AzureEngine::generate             *)
(* (completion/azure.rs, one chat response).                               *)
(*                                                                         *)
(* A call of generate builds the vendor request and returns a lazy stream  *)
(* (async_stream::stream!).  The body of the stream runs only while the    *)
(* consumer polls it, and it suspends at each .await and at each yield.    *)
(* Every generate call is one process here: its position is pc[c], and    *)
(* the transport's answers are inputs chosen by the environment.           *)
(***************************************************************************)
EXTENDS Integers, Sequences, FiniteSets, TLC

(***************************************************************************)
(* Bounds of the exploration.                                              *)
(***************************************************************************)
NumCalls == 2
MaxUnits == 3
MaxChoices == 2

Calls == 1..NumCalls
Engines == {"openai", "azure"}
Prompts == {"p"}
Texts == {"a", "b"}
None == "None"

\* Option<String> of a chat message: Some(text) or None.
Contents == Texts \cup {None}

\* sampling_temperature values (tenths) and max_decoding_tokens values.
Temperatures == {1, 10}
WideTokenCounts == {-1, 0, 40, 65535, 65536, 65576}

\* The options of the usual call: temperature 0.1, 40 tokens.
Options == {[sampling_temperature |-> 1, max_decoding_tokens |-> 40]}
WideOptions == [sampling_temperature : Temperatures, max_decoding_tokens : WideTokenCounts]

SeqsUpTo(S, n) == UNION {[1..k -> S] : k \in 0..n}

(***************************************************************************)
(* Items of the transport.  A unit of the completion stream is Ok(response *)
(* with choices), Err(OpenAIError::StreamError) or another Err.  A chat    *)
(* response is one Ok unit whose choices carry Option<String> contents.    *)
(***************************************************************************)
OkUnit(choices) == [kind |-> "ok", choices |-> choices]
StreamErrorUnit == [kind |-> "stream_error", choices |-> <<>>]
OtherErrorUnit == [kind |-> "other_error", choices |-> <<>>]

StreamUnits ==
    {OkUnit(ch) : ch \in SeqsUpTo(Texts, MaxChoices)} \cup {StreamErrorUnit, OtherErrorUnit}
ChatResponses == {OkUnit(ch) : ch \in SeqsUpTo(Contents, MaxChoices)}

\* Result of client.completions().create_stream(request).await
OpenAIReplies ==
    {[ok |-> FALSE, body |-> <<>>]} \cup {[ok |-> TRUE, body |-> s] : s \in SeqsUpTo(StreamUnits, MaxUnits)}
\* Result of client.chat().create(request).await
AzureReplies ==
    {[ok |-> FALSE, body |-> <<>>]} \cup {[ok |-> TRUE, body |-> <<r>>] : r \in ChatResponses}

Replies(e) == IF e = "openai" THEN OpenAIReplies ELSE AzureReplies

(***************************************************************************)
(* Warning diagnostics (tracing::warn!).                                   *)
(***************************************************************************)
WarnBuild == "Failed to build completion request"
WarnCreate == "Failed to create completion request"
WarnStream == "Failed to stream response"
WarnEmpty == "Empty choice from Azure"

VARIABLES
    adapter,    \* engine kind -> [client, model_name], set by create()
    pc,         \* call -> position of the call
    engine,     \* call -> the adapter the call was made on
    args,       \* call -> the caller's prompt and options
    request,    \* call -> Result of the request builder
    transport,  \* call -> "unused" | "requested" | "failed" | "open" | "closed"
    netCalls,   \* call -> number of transport requests issued
    stream,     \* call -> the units the transport answered with
    consumed,   \* call -> number of units taken from stream
    emitted,    \* call -> fragments handed to the consumer
    warnings    \* call -> warnings recorded by the call

vars == <<adapter, pc, engine, args, request, transport, netCalls, stream, consumed,
          emitted, warnings>>

NoArgs == [prompt |-> "", options |-> [sampling_temperature |-> 0, max_decoding_tokens |-> 0]]
NotBuilt == [ok |-> FALSE, error |-> "none"]
BuildErr == [ok |-> FALSE, error |-> "request"]
MessageErr == [ok |-> FALSE, error |-> "message"]

\* OpenAIEngine::create / AzureEngine::create
Create(e) == [client |-> e, model_name |-> "model"]

\* `options.max_decoding_tokens as u16`: an i32 truncated to its low 16 bits.
AsU16(n) == n % 65536

\* CreateCompletionRequestArgs ... .stream(true).prompt(prompt).build()
BuildCompletionRequest(self, prompt, options, ok) ==
    IF ok
    THEN [ok |-> TRUE,
          model |-> self.model_name,
          temperature |-> options.sampling_temperature,
          max_tokens |-> AsU16(options.max_decoding_tokens),
          stream |-> TRUE,
          prompt |-> <<prompt>>]
    ELSE BuildErr

\* CreateChatCompletionRequestArgs with one user message; .stream is not set.
BuildChatRequest(self, prompt, options, ok) ==
    IF ok
    THEN [ok |-> TRUE,
          model |-> self.model_name,
          temperature |-> options.sampling_temperature,
          max_tokens |-> AsU16(options.max_decoding_tokens),
          stream |-> FALSE,
          prompt |-> <<[role |-> "user", content |-> prompt]>>]
    ELSE BuildErr

Init ==
    /\ adapter = [e \in Engines |-> Create(e)]
    /\ pc = [c \in Calls |-> "idle"]
    /\ engine = [c \in Calls |-> "openai"]
    /\ args = [c \in Calls |-> NoArgs]
    /\ request = [c \in Calls |-> NotBuilt]
    /\ transport = [c \in Calls |-> "unused"]
    /\ netCalls = [c \in Calls |-> 0]
    /\ stream = [c \in Calls |-> <<>>]
    /\ consumed = [c \in Calls |-> 0]
    /\ emitted = [c \in Calls |-> <<>>]
    /\ warnings = [c \in Calls |-> <<>>]

\* Mutant of Generate: the request is issued inside generate, before the
\* stream is returned.
GenerateEager(c, e, prompt, options, messageOk, requestOk) ==
    /\ pc[c] = "idle"
    /\ engine' = [engine EXCEPT ![c] = e]
    /\ args' = [args EXCEPT ![c] = [prompt |-> prompt, options |-> options]]
    /\ IF e = "azure" /\ ~messageOk
       THEN /\ request' = [request EXCEPT ![c] = MessageErr]
            /\ pc' = [pc EXCEPT ![c] = "panicked"]
            /\ UNCHANGED <<transport, netCalls>>
       ELSE /\ request' = [request EXCEPT ![c] =
                  IF e = "openai"
                  THEN BuildCompletionRequest(adapter[e], prompt, options, requestOk)
                  ELSE BuildChatRequest(adapter[e], prompt, options, requestOk)]
            /\ IF requestOk
               THEN /\ pc' = [pc EXCEPT ![c] = "sending"]
                    /\ netCalls' = [netCalls EXCEPT ![c] = @ + 1]
                    /\ transport' = [transport EXCEPT ![c] = "requested"]
               ELSE /\ pc' = [pc EXCEPT ![c] = "created"]
                    /\ UNCHANGED <<transport, netCalls>>
    /\ UNCHANGED <<adapter, stream, consumed, emitted, warnings>>

(***************************************************************************)
(* generate(&self, prompt, options): builds the request and returns the    *)
(* stream without running its body.  The builders' results are the         *)
(* library's; AzureEngine unwraps the user message's.                      *)
(***************************************************************************)
Generate(c, e, prompt, options, messageOk, requestOk) ==
    /\ pc[c] = "idle"
    /\ engine' = [engine EXCEPT ![c] = e]
    /\ args' = [args EXCEPT ![c] = [prompt |-> prompt, options |-> options]]
    /\ IF e = "azure" /\ ~messageOk
       THEN /\ request' = [request EXCEPT ![c] = MessageErr]
            /\ pc' = [pc EXCEPT ![c] = "panicked"]
       ELSE /\ request' = [request EXCEPT ![c] =
                  IF e = "openai"
                  THEN BuildCompletionRequest(adapter[e], prompt, options, requestOk)
                  ELSE BuildChatRequest(adapter[e], prompt, options, requestOk)]
            /\ pc' = [pc EXCEPT ![c] = "created"]
    /\ UNCHANGED <<adapter, transport, netCalls, stream, consumed, emitted, warnings>>

(***************************************************************************)
(* The arms of the stream body, as the outcome of one synchronous run:     *)
(* where the call goes next, what it yields and what it logs.              *)
(***************************************************************************)

\* Mutant of Yield: the fragment is put before those already handed over.
YieldFront(out, frags) == frags \o out

\* `yield x`: the fragment is handed to the consumer after those before it.
Yield(out, frags) == out \o frags

\* Mutant of OnFirstPoll: the request is issued whatever the builder returned.
OnFirstPollSendsAnyway(req) ==
    IF req.ok
    THEN [send |-> TRUE, log |-> <<>>]
    ELSE [send |-> TRUE, log |-> <<WarnBuild>>]

\* `let request = match request { Ok(x) => x, Err(e) => { warn!; return } }`
OnFirstPoll(req) ==
    IF req.ok
    THEN [send |-> TRUE, log |-> <<>>]
    ELSE [send |-> FALSE, log |-> <<WarnBuild>>]

\* Mutant of OnCreateError: the failure of the request is not logged.
OnCreateErrorSilent == [next |-> "done", out |-> <<>>, log |-> <<>>]

\* Mutant of OnCreateError: after the warning the body starts over and the
\* request is issued again.
OnCreateErrorRetries == [next |-> "created", out |-> <<>>, log |-> <<WarnCreate>>]

\* `Err(e) => { warn!("Failed to create completion request"); return }`
OnCreateError == [next |-> "done", out |-> <<>>, log |-> <<WarnCreate>>]

\* Mutant of OnStreamItem: the stream-closed error is logged like any other.
OnStreamItemWarnsClosed(unit) ==
    IF unit.kind = "ok"
    THEN IF Len(unit.choices) = 0
         THEN [next |-> "panicked", out |-> <<>>, log |-> <<>>]
         ELSE [next |-> "yielded", out |-> <<unit.choices[1]>>, log |-> <<>>]
    ELSE [next |-> "done", out |-> <<>>, log |-> <<WarnStream>>]

\* Mutant of OnStreamItem: the stream-closed error does not end the loop.
OnStreamItemIgnoresClosed(unit) ==
    IF unit.kind = "ok"
    THEN IF Len(unit.choices) = 0
         THEN [next |-> "panicked", out |-> <<>>, log |-> <<>>]
         ELSE [next |-> "yielded", out |-> <<unit.choices[1]>>, log |-> <<>>]
    ELSE IF unit.kind = "stream_error"
         THEN [next |-> "awaiting", out |-> <<>>, log |-> <<>>]
         ELSE [next |-> "done", out |-> <<>>, log |-> <<WarnStream>>]

\* Mutant of OnStreamItem: an error other than stream-closed is skipped,
\* and the loop goes on to the next unit.
OnStreamItemSkipsError(unit) ==
    IF unit.kind = "ok"
    THEN IF Len(unit.choices) = 0
         THEN [next |-> "panicked", out |-> <<>>, log |-> <<>>]
         ELSE [next |-> "yielded", out |-> <<unit.choices[1]>>, log |-> <<>>]
    ELSE IF unit.kind = "stream_error"
         THEN [next |-> "done", out |-> <<>>, log |-> <<>>]
         ELSE [next |-> "awaiting", out |-> <<>>, log |-> <<WarnStream>>]

\* `match x { Ok(x) => yield x.choices[0].text.clone(), Err(StreamError) => break,
\*            Err(e) => { warn!; break } }`; choices[0] of an empty Vec panics.
OnStreamItem(unit) ==
    IF unit.kind = "ok"
    THEN IF Len(unit.choices) = 0
         THEN [next |-> "panicked", out |-> <<>>, log |-> <<>>]
         ELSE [next |-> "yielded", out |-> <<unit.choices[1]>>, log |-> <<>>]
    ELSE IF unit.kind = "stream_error"
         THEN [next |-> "done", out |-> <<>>, log |-> <<>>]
         ELSE [next |-> "done", out |-> <<>>, log |-> <<WarnStream>>]

\* Mutant of OnChatResponse: no test of choices.len(), choices[0] of an
\* empty Vec panics.
OnChatResponseUnchecked(resp) ==
    IF Len(resp.choices) = 0
    THEN [next |-> "panicked", out |-> <<>>, log |-> <<>>]
    ELSE IF resp.choices[1] = None
         THEN [next |-> "panicked", out |-> <<>>, log |-> <<>>]
         ELSE [next |-> "yielded", out |-> <<resp.choices[1]>>, log |-> <<>>]

\* `if s.choices.len() == 0 { warn!; return }
\*  yield s.choices[0].message.content.clone().unwrap()`; unwrap of None panics.
OnChatResponse(resp) ==
    IF Len(resp.choices) = 0
    THEN [next |-> "done", out |-> <<>>, log |-> <<WarnEmpty>>]
    ELSE IF resp.choices[1] = None
         THEN [next |-> "panicked", out |-> <<>>, log |-> <<>>]
         ELSE [next |-> "yielded", out |-> <<resp.choices[1]>>, log |-> <<>>]

\* What the call holds of the transport once a run of the body has ended.
HeldAfter(next) == IF next = "yielded" THEN "open" ELSE "closed"

(***************************************************************************)
(* First poll of the stream: the body starts, checks the built request     *)
(* and issues it to the transport (suspends on the .await).                *)
(***************************************************************************)
PollFirst(c) ==
    /\ pc[c] = "created"
    /\ LET r == OnFirstPoll(request[c]) IN
        /\ warnings' = [warnings EXCEPT ![c] = @ \o r.log]
        /\ IF r.send
           THEN /\ netCalls' = [netCalls EXCEPT ![c] = @ + 1]
                /\ transport' = [transport EXCEPT ![c] = "requested"]
                /\ pc' = [pc EXCEPT ![c] = "sending"]
           ELSE /\ pc' = [pc EXCEPT ![c] = "done"]
                /\ UNCHANGED <<netCalls, transport>>
    /\ UNCHANGED <<adapter, engine, args, request, stream, consumed, emitted>>

(***************************************************************************)
(* The transport answers the request.  OpenAI: Ok gives the stream, which  *)
(* the for-await loop starts polling.  Azure: Ok gives the whole response, *)
(* handled at once.                                                        *)
(***************************************************************************)
CreateReply(c, reply) ==
    /\ pc[c] = "sending"
    /\ reply \in Replies(engine[c])
    /\ IF ~reply.ok
       THEN /\ pc' = [pc EXCEPT ![c] = OnCreateError.next]
            /\ warnings' = [warnings EXCEPT ![c] = @ \o OnCreateError.log]
            /\ transport' = [transport EXCEPT ![c] = "failed"]
            /\ UNCHANGED <<stream, consumed, emitted>>
       ELSE IF engine[c] = "openai"
       THEN /\ stream' = [stream EXCEPT ![c] = reply.body]
            /\ transport' = [transport EXCEPT ![c] = "open"]
            /\ pc' = [pc EXCEPT ![c] = "awaiting"]
            /\ UNCHANGED <<consumed, emitted, warnings>>
       ELSE LET r == OnChatResponse(reply.body[1]) IN
            /\ stream' = [stream EXCEPT ![c] = reply.body]
            /\ consumed' = [consumed EXCEPT ![c] = 1]
            /\ pc' = [pc EXCEPT ![c] = r.next]
            /\ emitted' = [emitted EXCEPT ![c] = Yield(@, r.out)]
            /\ warnings' = [warnings EXCEPT ![c] = @ \o r.log]
            /\ transport' = [transport EXCEPT ![c] = HeldAfter(r.next)]
    /\ UNCHANGED <<adapter, engine, args, request, netCalls>>

\* Mutant of StreamNext: the end of the stream is not taken as the end of
\* the loop, which waits for a unit that never comes.
StreamNextNeverEnds(c) ==
    /\ pc[c] = "awaiting"
    /\ consumed[c] < Len(stream[c])
    /\ LET r == OnStreamItem(stream[c][consumed[c] + 1]) IN
        /\ consumed' = [consumed EXCEPT ![c] = @ + 1]
        /\ pc' = [pc EXCEPT ![c] = r.next]
        /\ emitted' = [emitted EXCEPT ![c] = Yield(@, r.out)]
        /\ warnings' = [warnings EXCEPT ![c] = @ \o r.log]
        /\ transport' = [transport EXCEPT ![c] = HeldAfter(r.next)]
    /\ UNCHANGED <<adapter, engine, args, request, netCalls, stream>>

\* Mutant of StreamNext: the loop runs ahead of the consumer and takes the
\* next unit while the last fragment has not been followed by a poll.
StreamNextEager(c) ==
    /\ pc[c] \in {"awaiting", "yielded"}
    /\ engine[c] = "openai"
    /\ IF consumed[c] = Len(stream[c])
       THEN /\ pc' = [pc EXCEPT ![c] = "done"]
            /\ transport' = [transport EXCEPT ![c] = "closed"]
            /\ UNCHANGED <<consumed, emitted, warnings>>
       ELSE LET r == OnStreamItem(stream[c][consumed[c] + 1]) IN
            /\ consumed' = [consumed EXCEPT ![c] = @ + 1]
            /\ pc' = [pc EXCEPT ![c] = r.next]
            /\ emitted' = [emitted EXCEPT ![c] = Yield(@, r.out)]
            /\ warnings' = [warnings EXCEPT ![c] = @ \o r.log]
            /\ transport' = [transport EXCEPT ![c] = HeldAfter(r.next)]
    /\ UNCHANGED <<adapter, engine, args, request, netCalls, stream>>

\* Mutant of StreamNext: the fragment goes to an output kept by the adapter
\* (the first call's) and not to the call's own.
StreamNextSharedOutput(c) ==
    /\ pc[c] = "awaiting"
    /\ IF consumed[c] = Len(stream[c])
       THEN /\ pc' = [pc EXCEPT ![c] = "done"]
            /\ transport' = [transport EXCEPT ![c] = "closed"]
            /\ UNCHANGED <<consumed, emitted, warnings>>
       ELSE LET r == OnStreamItem(stream[c][consumed[c] + 1]) IN
            /\ consumed' = [consumed EXCEPT ![c] = @ + 1]
            /\ pc' = [pc EXCEPT ![c] = r.next]
            /\ emitted' = [emitted EXCEPT ![1] = Yield(@, r.out)]
            /\ warnings' = [warnings EXCEPT ![c] = @ \o r.log]
            /\ transport' = [transport EXCEPT ![c] = HeldAfter(r.next)]
    /\ UNCHANGED <<adapter, engine, args, request, netCalls, stream>>

(***************************************************************************)
(* One turn of `for await x in s`: the stream ends, or delivers its next   *)
(* unit, which is matched at once.                                         *)
(***************************************************************************)
StreamNext(c) ==
    /\ pc[c] = "awaiting"
    /\ IF consumed[c] = Len(stream[c])
       THEN /\ pc' = [pc EXCEPT ![c] = "done"]
            /\ transport' = [transport EXCEPT ![c] = "closed"]
            /\ UNCHANGED <<consumed, emitted, warnings>>
       ELSE LET r == OnStreamItem(stream[c][consumed[c] + 1]) IN
            /\ consumed' = [consumed EXCEPT ![c] = @ + 1]
            /\ pc' = [pc EXCEPT ![c] = r.next]
            /\ emitted' = [emitted EXCEPT ![c] = Yield(@, r.out)]
            /\ warnings' = [warnings EXCEPT ![c] = @ \o r.log]
            /\ transport' = [transport EXCEPT ![c] = HeldAfter(r.next)]
    /\ UNCHANGED <<adapter, engine, args, request, netCalls, stream>>

(***************************************************************************)
(* The consumer polls again after a fragment: the body resumes behind the  *)
(* yield.  OpenAI goes round the loop; Azure's body ends.                  *)
(***************************************************************************)
PollResume(c) ==
    /\ pc[c] = "yielded"
    /\ IF engine[c] = "openai"
       THEN /\ pc' = [pc EXCEPT ![c] = "awaiting"]
            /\ UNCHANGED transport
       ELSE /\ pc' = [pc EXCEPT ![c] = "done"]
            /\ transport' = [transport EXCEPT ![c] = "closed"]
    /\ UNCHANGED <<adapter, engine, args, request, netCalls, stream, consumed, emitted,
                   warnings>>

\* Mutant of Drop: the request or response stream outlives the dropped
\* sequence (as it would in a task spawned apart from it).
DropLeaks(c) ==
    /\ pc[c] \in {"created", "sending", "awaiting", "yielded"}
    /\ pc' = [pc EXCEPT ![c] = "dropped"]
    /\ UNCHANGED <<adapter, engine, args, request, transport, netCalls, stream, consumed,
                   emitted, warnings>>

(***************************************************************************)
(* The consumer drops the BoxStream before its end: the suspended body is  *)
(* dropped with the request future or response stream it holds.            *)
(***************************************************************************)
Drop(c) ==
    /\ pc[c] \in {"created", "sending", "awaiting", "yielded"}
    /\ pc' = [pc EXCEPT ![c] = "dropped"]
    /\ transport' = [transport EXCEPT ![c] =
           IF @ \in {"requested", "open"} THEN "closed" ELSE @]
    /\ UNCHANGED <<adapter, engine, args, request, netCalls, stream, consumed, emitted,
                   warnings>>

\* A caller's generate with any input and any outcome of the builders.
GenerateAny(c, opts) ==
    \E e \in Engines, p \in Prompts, o \in opts, m \in BOOLEAN, r \in BOOLEAN :
        Generate(c, e, p, o, m, r)

TransportReply(c) ==
    /\ pc[c] = "sending"
    /\ \E reply \in Replies(engine[c]) : CreateReply(c, reply)

\* One generate call, explored with every transport behaviour.
Solo == {1}

Next ==
    \E c \in Solo :
        \/ GenerateAny(c, Options)
        \/ PollFirst(c)
        \/ TransportReply(c)
        \/ StreamNext(c)
        \/ PollResume(c)
        \/ Drop(c)

Spec == Init /\ [][Next]_vars

(***************************************************************************)
(* Concurrent calls on the shared adapters: every call of Calls runs, in   *)
(* every interleaving of polls and transport deliveries.  The transport    *)
(* answers each call from a few streams and responses.                     *)
(***************************************************************************)
ConcStreams ==
    { <<>>,
      <<OkUnit(<<"a">>), OkUnit(<<"b">>)>>,
      <<OkUnit(<<"b">>), OkUnit(<<"a">>)>>,
      <<OkUnit(<<"a">>), OtherErrorUnit, OkUnit(<<"b">>)>> }

ConcReplies(e) ==
    {[ok |-> FALSE, body |-> <<>>]} \cup
    IF e = "openai"
    THEN {[ok |-> TRUE, body |-> s] : s \in ConcStreams}
    ELSE {[ok |-> TRUE, body |-> <<OkUnit(ch)>>] : ch \in {<<>>, <<"a">>, <<"b">>}}

ConcReply(c) ==
    /\ pc[c] = "sending"
    /\ \E reply \in ConcReplies(engine[c]) : CreateReply(c, reply)

NextConc ==
    \E c \in Calls :
        \/ GenerateAny(c, Options)
        \/ PollFirst(c)
        \/ ConcReply(c)
        \/ StreamNext(c)
        \/ PollResume(c)
        \/ Drop(c)

SpecConc == Init /\ [][NextConc]_vars

(***************************************************************************)
(* A call whose consumer keeps polling (it never drops the sequence) and   *)
(* whose transport answers the request and delivers its finite stream.     *)
(***************************************************************************)
\* The kinds of unit and of response, one of each (the texts play no part
\* in whether the call stops).
LiveUnits == {OkUnit(<<"a">>), OkUnit(<<>>), StreamErrorUnit, OtherErrorUnit}

LiveReplies(e) ==
    {[ok |-> FALSE, body |-> <<>>]} \cup
    IF e = "openai"
    THEN {[ok |-> TRUE, body |-> s] : s \in SeqsUpTo(LiveUnits, MaxUnits)}
    ELSE {[ok |-> TRUE, body |-> <<OkUnit(ch)>>] : ch \in {<<>>, <<"a">>, <<None>>}}

LiveReply(c) ==
    /\ pc[c] = "sending"
    /\ \E reply \in LiveReplies(engine[c]) : CreateReply(c, reply)

NextLive ==
    \E c \in Solo :
        \/ GenerateAny(c, Options)
        \/ PollFirst(c)
        \/ LiveReply(c)
        \/ StreamNext(c)
        \/ PollResume(c)

SpecLive ==
    /\ Init
    /\ [][NextLive]_vars
    /\ \A c \in Solo :
        /\ WF_vars(PollFirst(c))
        /\ WF_vars(LiveReply(c))
        /\ WF_vars(StreamNext(c))
        /\ WF_vars(PollResume(c))

\* Every call builds its request from the whole range of the options.
NextOptions ==
    \E c \in Calls :
        \/ GenerateAny(c, WideOptions)
        \/ PollFirst(c)

SpecOptions == Init /\ [][NextOptions]_vars

(***************************************************************************)
(* Properties.                                                             *)
(***************************************************************************)

\* A unit the loop yields from: Ok with at least one choice.
NormalUnit(u) == u.kind = "ok" /\ Len(u.choices) > 0

\* The number of normal units at the head of the first n units of s.
RECURSIVE LeadingNormal(_, _, _)
LeadingNormal(s, n, i) ==
    IF i < n /\ NormalUnit(s[i + 1]) THEN LeadingNormal(s, n, i + 1) ELSE i

\* The first-choice texts of the first k units of s.
FirstTexts(s, k) == [i \in 1..k |-> s[i].choices[1]]

AllNormal(s) == \A i \in 1..Len(s) : NormalUnit(s[i])

\* C1: the fragments a streaming call has emitted are at every moment the
\* first-choice texts of the normal units it has taken from the transport,
\* in delivery order (a prefix of the stream's texts), and when a stream of
\* N normal units has ended they are the texts of all N units.
C1_Ordering ==
    \A c \in Calls :
        engine[c] = "openai" =>
            /\ emitted[c] = FirstTexts(stream[c], LeadingNormal(stream[c], consumed[c], 0))
            /\ (pc[c] = "done" /\ transport[c] = "closed" /\ AllNormal(stream[c])
                    => emitted[c] = FirstTexts(stream[c], Len(stream[c])))

\* C1 witness: a stream of MaxUnits normal units with differing texts has
\* been delivered to the end.
C1_Witness ==
    \E c \in Calls :
        /\ engine[c] = "openai" /\ pc[c] = "done"
        /\ Len(stream[c]) = MaxUnits /\ AllNormal(stream[c])
        /\ Len(emitted[c]) = MaxUnits /\ emitted[c][1] # emitted[c][2]

\* C2: a call of generate whose stream exists never panics, whatever the
\* request builder and the transport return: request build failure, request
\* failure, either stream error, a unit or response with zero choices, a
\* first choice with or without content.
C2_NoPanic == \A c \in Calls : request[c] # MessageErr => pc[c] # "panicked"

\* C3: when the unit a streaming call took last is the stream-closed error,
\* after K normal units, the sequence has ended with exactly K fragments and
\* no warning.
C3_StreamClosed ==
    \A c \in Calls :
        (/\ engine[c] = "openai" /\ consumed[c] > 0
         /\ stream[c][consumed[c]].kind = "stream_error")
            => /\ pc[c] = "done"
               /\ Len(emitted[c]) = consumed[c] - 1
               /\ emitted[c] = FirstTexts(stream[c], consumed[c] - 1)
               /\ warnings[c] = <<>>

\* C3 witness: the stream closed after two normal units.
C3_Witness ==
    \E c \in Calls :
        /\ engine[c] = "openai" /\ consumed[c] = 3 /\ pc[c] = "done"
        /\ stream[c][3].kind = "stream_error" /\ Len(emitted[c]) = 2

\* C4: when the unit a streaming call took last is an error other than
\* stream-closed, after K normal units, the sequence has ended with exactly
\* the K fragments emitted before it and exactly one warning.
C4_OtherError ==
    \A c \in Calls :
        (/\ engine[c] = "openai" /\ consumed[c] > 0
         /\ stream[c][consumed[c]].kind = "other_error")
            => /\ pc[c] = "done"
               /\ Len(emitted[c]) = consumed[c] - 1
               /\ emitted[c] = FirstTexts(stream[c], consumed[c] - 1)
               /\ warnings[c] = <<WarnStream>>

\* C4 witness: the other error came after two normal units.
C4_Witness ==
    \E c \in Calls :
        /\ engine[c] = "openai" /\ consumed[c] = 3 /\ pc[c] = "done"
        /\ stream[c][3].kind = "other_error" /\ Len(emitted[c]) = 2

\* C5: for every chat response with at least one choice, the single-shot
\* call emits exactly one fragment, the first choice's message content, ends
\* without panic and records no warning.
C5_SingleShot ==
    \A c \in Calls :
        (engine[c] = "azure" /\ consumed[c] = 1 /\ Len(stream[c][1].choices) >= 1)
            => /\ pc[c] \in {"yielded", "done", "dropped"}
               /\ emitted[c] = <<stream[c][1].choices[1]>>
               /\ warnings[c] = <<>>

\* C6: a chat response with zero choices gives an empty sequence that has
\* ended, and exactly one warning, which is the empty-choice warning and
\* none of the others.
C6_EmptyChoice ==
    \A c \in Calls :
        (engine[c] = "azure" /\ consumed[c] = 1 /\ Len(stream[c][1].choices) = 0)
            => /\ pc[c] = "done"
               /\ emitted[c] = <<>>
               /\ Len(warnings[c]) = 1
               /\ warnings[c][1] = WarnEmpty
               /\ warnings[c][1] \notin {WarnBuild, WarnCreate, WarnStream}

\* C6 witness: the chat request succeeded with a response of zero choices.
C6_Witness ==
    \E c \in Calls :
        /\ engine[c] = "azure" /\ transport[c] = "closed" /\ consumed[c] = 1
        /\ stream[c] = <<OkUnit(<<>>)>> /\ pc[c] = "done"

\* C7: whenever a builder fails (the request's, or the user message's for
\* the single-shot adapter) the call does not panic, emits nothing, and has
\* recorded exactly one warning, the build warning, once it has ended.
C7_BuildFailure ==
    \A c \in Calls :
        (pc[c] # "idle" /\ ~request[c].ok)
            => /\ pc[c] \in {"created", "done", "dropped"}
               /\ emitted[c] = <<>>
               /\ (pc[c] = "done" => warnings[c] = <<WarnBuild>>)

\* C8: a call has issued a transport request only if its request was built
\* successfully; a call whose build failed has issued none and holds nothing
\* of the transport.
C8_BuildBeforeNetwork ==
    \A c \in Calls :
        /\ netCalls[c] > 0 => request[c].ok
        /\ ~request[c].ok => netCalls[c] = 0 /\ transport[c] = "unused"

\* C8 witness: a call whose request failed to build was polled to its end.
C8_Witness ==
    \E c \in Calls :
        /\ engine[c] = "openai" /\ request[c] = BuildErr
        /\ pc[c] = "done" /\ netCalls[c] = 0

\* C9: when the transport call that issues the request returns an error,
\* the sequence has ended empty, exactly one warning is recorded and no
\* response unit was consumed.
C9_CreateFailure ==
    \A c \in Calls :
        transport[c] = "failed"
            => /\ pc[c] = "done"
               /\ emitted[c] = <<>>
               /\ warnings[c] = <<WarnCreate>>
               /\ consumed[c] = 0 /\ stream[c] = <<>>

\* C9 witness: chat create returned an error to a call that had issued it.
C9_Witness ==
    \E c \in Calls :
        /\ engine[c] = "azure" /\ transport[c] = "failed" /\ netCalls[c] = 1

\* C10: the max-token count and the temperature of every built request
\* equal the caller's max_decoding_tokens and sampling_temperature.
C10_PassThrough ==
    \A c \in Calls :
        request[c].ok
            => /\ request[c].max_tokens = args[c].options.max_decoding_tokens
               /\ request[c].temperature = args[c].options.sampling_temperature

\* The fields of one call.
CallState(c) ==
    <<pc[c], engine[c], args[c], request[c], transport[c], netCalls[c], stream[c],
      consumed[c], emitted[c], warnings[c]>>

\* What a call has emitted, from the units delivered to that call alone.
OwnFragments(c) ==
    IF engine[c] = "openai"
    THEN FirstTexts(stream[c], LeadingNormal(stream[c], consumed[c], 0))
    ELSE IF consumed[c] = 1 /\ NormalUnit(stream[c][1]) /\ stream[c][1].choices[1] # None
         THEN <<stream[c][1].choices[1]>>
         ELSE <<>>

\* C11: with concurrent calls on the shared adapters, in every interleaving
\* each call's emitted sequence is the in-order texts of the units delivered
\* to that call alone, every step changes the state of one call only, and
\* the adapters' client handle and model name never change.
C11_Concurrency ==
    /\ [](\A c \in Calls : emitted[c] = OwnFragments(c))
    /\ [](adapter = [e \in Engines |-> Create(e)])
    /\ [][\E c \in Calls : \A d \in Calls \ {c} : CallState(d)' = CallState(d)]_vars

\* C11 witness: two calls on the same adapter are under way at once, each
\* with its own first fragment, differing from the other's.
C11_Witness ==
    \E c, d \in Calls :
        /\ c # d /\ engine[c] = "openai" /\ engine[d] = "openai"
        /\ pc[c] = "yielded" /\ pc[d] = "awaiting"
        /\ emitted[c] = <<"a">> /\ emitted[d] = <<"b">>

\* C12: once the consumer has dropped the sequence, at whatever point before
\* its end, the call holds no request in flight and no response stream, and
\* from then on it consumes no unit, emits no fragment and records no
\* warning (nothing of the call changes).
C12_Cancellation ==
    /\ [](\A c \in Calls : pc[c] = "dropped" => transport[c] \in {"unused", "closed"})
    /\ [][\A c \in Calls : pc[c] = "dropped" => CallState(c)' = CallState(c)]_vars

\* C12 witness: the sequence was dropped between two fragments, with units
\* of the stream still undelivered.
C12_Witness ==
    \E c \in Calls :
        /\ pc[c] = "dropped" /\ transport[c] = "closed"
        /\ Len(emitted[c]) = 1 /\ consumed[c] = 1 /\ Len(stream[c]) = 3

\* C13: a streaming call has never taken more than one unit beyond the
\* fragments it has handed over, and it takes a unit only while a poll of
\* the consumer is pending (never while it is suspended at a yield).
C13_Backpressure ==
    /\ [](\A c \in Calls :
            engine[c] = "openai"
                => consumed[c] - Len(emitted[c]) \in {0, 1})
    /\ [][\A c \in Calls :
            (engine[c] = "openai" /\ consumed[c]' # consumed[c])
                => /\ pc[c] = "awaiting"
                   /\ consumed[c]' = consumed[c] + 1]_vars

\* C13 witness: two fragments are handed over, the consumer has not polled
\* again, and the third unit of the stream is still with the transport.
C13_Witness ==
    \E c \in Calls :
        /\ engine[c] = "openai" /\ pc[c] = "yielded"
        /\ consumed[c] = 2 /\ Len(emitted[c]) = 2 /\ Len(stream[c]) = 3

\* The state of the specification's machine a call is in.
Phase(c) ==
    CASE pc[c] = "idle" -> "Idle"
      [] pc[c] = "created" -> "RequestBuilt"
      [] pc[c] = "sending" -> "RequestSent"
      [] pc[c] = "awaiting" /\ consumed[c] = 0 -> "ResponseReceived"
      [] pc[c] = "awaiting" /\ consumed[c] > 0 -> "Emitting"
      [] pc[c] = "yielded" -> "Emitting"
      [] pc[c] = "done" /\ ~request[c].ok -> "RequestFailed"
      [] pc[c] = "done" /\ request[c].ok /\ transport[c] = "failed" -> "TransportError"
      [] pc[c] = "done" /\ request[c].ok /\ transport[c] # "failed"
            /\ warnings[c] = <<WarnEmpty>> -> "EmptyChoices"
      [] pc[c] = "done" /\ request[c].ok /\ transport[c] # "failed"
            /\ warnings[c] # <<WarnEmpty>> -> "Done"
      [] pc[c] = "panicked" -> "Panicked"
      [] pc[c] = "dropped" -> "Abandoned"

\* The moves of the machine.  A step of the model may pass through states
\* the call does not rest in (a chat response is received and handled in one
\* run; a stream that ends or fails before its first fragment goes through
\* Emitting with no emission).  A drop by the consumer is no move of the call.
MachineMoves ==
    { <<"Idle", "RequestBuilt">>,
      <<"RequestBuilt", "RequestFailed">>, <<"RequestBuilt", "RequestSent">>,
      <<"RequestSent", "TransportError">>, <<"RequestSent", "ResponseReceived">>,
      <<"RequestSent", "EmptyChoices">>, <<"RequestSent", "Emitting">>,
      <<"ResponseReceived", "Emitting">>, <<"ResponseReceived", "Done">>,
      <<"Emitting", "Emitting">>, <<"Emitting", "Done">> }
    \cup {<<p, "Abandoned">> : p \in {"RequestBuilt", "RequestSent", "ResponseReceived", "Emitting"}}

\* C14: every call moves only along the machine Idle -> RequestBuilt ->
\* {RequestFailed | RequestSent -> {TransportError | ResponseReceived ->
\* {EmptyChoices | Emitting -> Done}}}, its terminal states are never left,
\* and a single-shot call that emits performs exactly one emission.
C14_StateMachine ==
    /\ [][\A c \in Calls :
            Phase(c)' # Phase(c) => <<Phase(c), Phase(c)'>> \in MachineMoves]_vars
    /\ [](\A c \in Calls :
            (engine[c] = "azure" /\ Phase(c) \in {"Emitting", "Done"})
                => Len(emitted[c]) = 1)

\* C15: for every unit or response with two or more choices that a call has
\* taken, the call has emitted exactly one fragment for it, the text of the
\* choice at index 0.
C15_FirstChoiceOnly ==
    \A c \in Calls :
        /\ Len(emitted[c]) <= consumed[c]
        /\ \A i \in 1..consumed[c] :
            Len(stream[c][i].choices) >= 2
                => /\ Len(emitted[c]) >= i
                   /\ emitted[c][i] = stream[c][i].choices[1]

\* C16: a call issues at most one transport request, exactly one once its
\* built request has been polled, on every path (transport error, stream
\* error, panic); a single-shot call receives at most one response, and none
\* without a request.
C16_OneRequest ==
    \A c \in Calls :
        /\ netCalls[c] <= 1
        /\ (request[c].ok /\ pc[c] \in {"sending", "awaiting", "yielded", "done", "panicked"})
                => netCalls[c] = 1
        /\ engine[c] = "azure" => consumed[c] <= 1
        /\ netCalls[c] = 0 => consumed[c] = 0 /\ stream[c] = <<>>

\* C16 witness: a stream failed after two fragments and the call ended with
\* its one request.
C16_Witness ==
    \E c \in Calls :
        /\ pc[c] = "done" /\ netCalls[c] = 1
        /\ warnings[c] = <<WarnStream>> /\ Len(emitted[c]) = 2

C18_LazyIssue ==
    /\ [](\A c \in Calls :
            /\ pc[c] = "created" => request[c] # NotBuilt
            /\ pc[c] \in {"idle", "created"}
                => netCalls[c] = 0 /\ transport[c] = "unused" /\ warnings[c] = <<>>)
    /\ [][\A c \in Calls :
            /\ netCalls[c]' # netCalls[c] => pc[c] = "created" /\ pc[c]' = "sending"
            /\ (pc[c] = "created" /\ pc[c]' = "dropped")
                => netCalls[c]' = 0 /\ warnings[c]' = <<>>]_vars

\* C18 witness: a sequence with a built request was dropped without a poll.
C18_Witness ==
    \E c \in Calls :
        /\ pc[c] = "dropped" /\ request[c].ok
        /\ netCalls[c] = 0 /\ transport[c] = "unused" /\ warnings[c] = <<>>

\* C19: a call records at most one warning, its sequence has ended when the
\* warning is recorded, and afterwards the call emits no fragment, consumes
\* no unit and records nothing more.
C19_OneWarning ==
    /\ [](\A c \in Calls :
            /\ Len(warnings[c]) <= 1
            /\ warnings[c] # <<>> => pc[c] = "done")
    /\ [][\A c \in Calls :
            warnings[c] # <<>>
                => /\ emitted[c]' = emitted[c]
                   /\ consumed[c]' = consumed[c]
                   /\ warnings[c]' = warnings[c]]_vars

\* C19 witness: a warning was recorded while the stream had a unit left.
C19_Witness ==
    \E c \in Calls :
        /\ warnings[c] = <<WarnStream>> /\ pc[c] = "done"
        /\ consumed[c] = 2 /\ Len(stream[c]) = 3

\* C20: an error unit of either kind is the last unit a streaming call
\* takes: the sequence has ended with the fragments of the units before it,
\* and no unit behind the error is consumed or emitted.
C20_FirstErrorStops ==
    \A c \in Calls :
        engine[c] = "openai" =>
            \A i \in 1..consumed[c] :
                stream[c][i].kind # "ok"
                    => /\ consumed[c] = i
                       /\ pc[c] = "done"
                       /\ emitted[c] = FirstTexts(stream[c], i - 1)

\* C20 witness: the stream closed with an error, a normal unit behind it.
C20_Witness ==
    \E c \in Calls :
        /\ engine[c] = "openai" /\ pc[c] = "done"
        /\ stream[c] = <<OkUnit(<<"a">>), StreamErrorUnit, OkUnit(<<"b">>)>>
        /\ consumed[c] = 2 /\ emitted[c] = <<"a">>
=============================================================================
